---------------------------- MODULE Spec2Model ----------------------------
(***************************************************************************)
(* Model of the jsonpb marshaler: the name converter (JSONCamelCase,       *)
(* JSONSnakeCase), the well-known-type encoders (Any, Timestamp, Duration, *)
(* FieldMask, Empty), JSONPb.Marshal and the stream encoder returned by    *)
(* JSONPb.NewEncoder.                                                      *)
(*                                                                         *)
(* Representation.  A Go string / []byte is a sequence of one-character    *)
(* strings.  A Go int64 is a sign-magnitude record [neg, hi, lo] denoting  *)
(* (-1)^neg * (hi * 10^9 + lo): the values the encoders validate           *)
(* (315576000000, 253402300799, 2^54) do not fit the 32-bit integers of    *)
(* the model checker, so they are kept as two limbs.                       *)
(***************************************************************************)
EXTENDS Integers, Sequences, FiniteSets, TLC

VARIABLES
    call,   \* the last encoder / converter invocation: [op, arg]
    res,    \* its result: [out, err]
    w,      \* stream encoder: the bytes received by the writer
    calls,  \* stream encoder: the values passed to Encode so far (history)
    pc,     \* concurrent Marshal: each call's position
    arg,    \* concurrent Marshal: each call's argument v
    buf,    \* concurrent Marshal: each call's local bytes.Buffer
    ret     \* concurrent Marshal: each call's return value [bytes, err]

vars == <<call, res, w, calls, pc, arg, buf, ret>>

(***************************************************************************)
(* Bounds of the model.                                                    *)
(***************************************************************************)
MaxExp == 9        \* nanos are mantissa * 10^k for k in 0..MaxExp
MaxPathLen == 4    \* identifiers enumerated exhaustively up to this length
MaxPaths == 3      \* paths in one FieldMask
MaxCalls == 3      \* Encode calls on one stream encoder
NumCalls == 2      \* concurrent Marshal calls

(***************************************************************************)
(* Characters.                                                             *)
(***************************************************************************)
LowerChars == <<"a","b","c","d","e","f","g","h","i","j","k","l","m",
                "n","o","p","q","r","s","t","u","v","w","x","y","z">>
UpperChars == <<"A","B","C","D","E","F","G","H","I","J","K","L","M",
                "N","O","P","Q","R","S","T","U","V","W","X","Y","Z">>
DigitChars == <<"0","1","2","3","4","5","6","7","8","9">>

Range(f) == {f[i] : i \in DOMAIN f}

IndexOf(c, chars) == CHOOSE i \in DOMAIN chars : chars[i] = c

isASCIILower(c) == c \in Range(LowerChars)
isASCIIUpper(c) == c \in Range(UpperChars)
isASCIIDigit(c) == c \in Range(DigitChars)

\* c -= 'a' - 'A'
ToUpper(c) == UpperChars[IndexOf(c, LowerChars)]
\* c += 'a' - 'A'
ToLower(c) == LowerChars[IndexOf(c, UpperChars)]

(***************************************************************************)
(* The name converter.                                                     *)
(***************************************************************************)
RECURSIVE CamelLoop(_, _, _, _)
CamelLoop(s, i, wasUnderscore, b) ==
    IF i > Len(s) THEN b
    ELSE LET c == s[i]
             b2 == IF c # "_"
                   THEN Append(b, IF wasUnderscore /\ isASCIILower(c)
                                  THEN ToUpper(c) ELSE c)
                   ELSE b
         IN CamelLoop(s, i + 1, c = "_", b2)

\* A converter that keeps an underscore unless a lower-case letter follows it.
RECURSIVE CamelLoopKeep(_, _, _, _)
CamelLoopKeep(s, i, wasUnderscore, b) ==
    IF i > Len(s) THEN b
    ELSE LET c == s[i]
             drop == c = "_" /\ i < Len(s) /\ isASCIILower(s[i + 1])
             b2 == IF drop THEN b
                   ELSE Append(b, IF wasUnderscore /\ isASCIILower(c)
                                  THEN ToUpper(c) ELSE c)
         IN CamelLoopKeep(s, i + 1, drop, b2)

JSONCamelCaseKeep(s) == CamelLoopKeep(s, 1, FALSE, <<>>)

JSONCamelCase(s) == CamelLoop(s, 1, FALSE, <<>>)

RECURSIVE SnakeLoop(_, _, _)
SnakeLoop(s, i, b) ==
    IF i > Len(s) THEN b
    ELSE LET c == s[i]
         IN SnakeLoop(s, i + 1,
                IF isASCIIUpper(c) THEN b \o <<"_", ToLower(c)>>
                ELSE Append(b, c))

JSONSnakeCase(s) == SnakeLoop(s, 1, <<>>)

(***************************************************************************)
(* int64 values as two decimal limbs.                                      *)
(***************************************************************************)
I64(neg, hi, lo) == [neg |-> neg, hi |-> hi, lo |-> lo]
I64Zero == I64(FALSE, 0, 0)
I64IsZero(x) == x.hi = 0 /\ x.lo = 0
\* -1 * x
I64Negate(x) == IF I64IsZero(x) THEN x ELSE I64(~x.neg, x.hi, x.lo)
I64Abs(x) == I64(FALSE, x.hi, x.lo)
I64IsNeg(x) == x.neg /\ ~I64IsZero(x)
I64IsPos(x) == ~x.neg /\ ~I64IsZero(x)
MagLess(x, y) == x.hi < y.hi \/ (x.hi = y.hi /\ x.lo < y.lo)
\* x < y
I64Less(x, y) ==
    IF I64IsNeg(x)
    THEN IF I64IsNeg(y) THEN MagLess(y, x) ELSE TRUE
    ELSE IF I64IsNeg(y) THEN FALSE ELSE MagLess(x, y)
\* an int32 (the nanos field) read through protoreflect Value.Int()
I64OfInt(n) == IF n < 0 THEN I64(TRUE, 0, -n) ELSE I64(FALSE, 0, n)

(***************************************************************************)
(* fmt.Sprintf verbs and strings.TrimSuffix.                               *)
(***************************************************************************)
RECURSIVE DecDigits(_)
DecDigits(n) ==
    IF n < 10 THEN <<DigitChars[n + 1]>>
    ELSE Append(DecDigits(n \div 10), DigitChars[(n % 10) + 1])

RECURSIVE ZeroPad(_, _)
ZeroPad(ds, width) == IF Len(ds) >= width THEN ds ELSE ZeroPad(<<"0">> \o ds, width)

\* %09d of a non-negative value below 10^9
Pad9(n) == ZeroPad(DecDigits(n), 9)

\* %d of a non-negative int64
FormatMag(x) == IF x.hi = 0 THEN DecDigits(x.lo) ELSE DecDigits(x.hi) \o Pad9(x.lo)

HasSuffix(x, suffix) ==
    /\ Len(x) >= Len(suffix)
    /\ SubSeq(x, Len(x) - Len(suffix) + 1, Len(x)) = suffix

TrimSuffix(x, suffix) ==
    IF HasSuffix(x, suffix) THEN SubSeq(x, 1, Len(x) - Len(suffix)) ELSE x

\* The three trimming steps shared by marshalDuration and marshalTimestamp.
TrimFractionOnce(x) ==
    TrimSuffix(TrimSuffix(x, <<"0","0","0">>), <<".","0","0","0">>)

TrimFraction(x) ==
    TrimSuffix(TrimSuffix(TrimSuffix(x, <<"0","0","0">>), <<"0","0","0">>),
               <<".","0","0","0">>)

(***************************************************************************)
(* The token writer and errors.                                            *)
(***************************************************************************)
NoErr == [text |-> "", args |-> <<>>]
Err(text, args) == [text |-> text, args |-> args]
Failed(r) == r.err # NoErr

TokStartObject == [t |-> "{", v |-> <<>>]
TokEndObject == [t |-> "}", v |-> <<>>]
TokName(s) == [t |-> "name", v |-> s]
TokString(s) == [t |-> "string", v |-> s]

\* A byte that is not valid UTF-8.
BadByte == "\\xff"
ValidUTF8(s) == \A i \in DOMAIN s : s[i] # BadByte

\* e.WriteString(s): appends the string token, or fails on invalid UTF-8.
WriteString(e, s) ==
    IF ValidUTF8(s) THEN [out |-> Append(e, TokString(s)), err |-> NoErr]
    ELSE [out |-> e, err |-> Err("invalid UTF-8", <<>>)]

(***************************************************************************)
(* Duration.                                                               *)
(***************************************************************************)
secondsInNanos == 999999999
maxSecondsInDuration == I64(FALSE, 315, 576000000)

\* A range check that lets the first value beyond the limit through.
DurationSecondsInRangeLax(secs) ==
    ~(I64Less(secs, I64(TRUE, 315, 576000001)) \/ I64Less(I64(FALSE, 315, 576000001), secs))

DurationSecondsInRange(secs) ==
    ~(I64Less(secs, I64Negate(maxSecondsInDuration)) \/ I64Less(maxSecondsInDuration, secs))

DurationNanosInRange(nanos) == ~(nanos < -secondsInNanos \/ nanos > secondsInNanos)

DurationSignsMatch(secs, nanos) ==
    ~((I64IsPos(secs) /\ nanos < 0) \/ (I64IsNeg(secs) /\ nanos > 0))

\* m = [seconds, nanos]; e = the tokens written so far
marshalDuration(e, m) ==
    LET secs == m.seconds
        nanos == m.nanos
    IN IF ~DurationSecondsInRange(secs)
       THEN [out |-> e, err |-> Err("google.protobuf.Duration: seconds out of range %v", <<secs>>)]
       ELSE IF ~DurationNanosInRange(nanos)
       THEN [out |-> e, err |-> Err("google.protobuf.Duration: nanos out of range %v", <<I64OfInt(nanos)>>)]
       ELSE IF ~DurationSignsMatch(secs, nanos)
       THEN [out |-> e, err |-> Err("google.protobuf.Duration: signs of seconds and nanos do not match", <<>>)]
       ELSE LET negative == I64IsNeg(secs) \/ nanos < 0
                sign == IF negative THEN <<"-">> ELSE <<>>
                secs2 == IF negative THEN I64Negate(secs) ELSE secs
                nanos2 == IF negative THEN -1 * nanos ELSE nanos
                x == sign \o FormatMag(I64Abs(secs2)) \o <<".">> \o Pad9(nanos2)
            IN [out |-> Append(e, TokString(TrimFraction(x) \o <<"s">>)), err |-> NoErr]


(***************************************************************************)
(* Timestamp.                                                              *)
(***************************************************************************)
maxTimestampSeconds == I64(FALSE, 253, 402300799)
minTimestampSeconds == I64(TRUE, 62, 135596800)

SecondsPerDay == 86400
\* 10^9 = 11574 * 86400 + 6400
LimbDays == 11574
LimbRest == 6400

\* A split that truncates toward zero instead of flooring.
UnixDayTruncated(secs) ==
    LET t == secs.hi * LimbRest + secs.lo
        q == secs.hi * LimbDays + (t \div SecondsPerDay)
        r == t % SecondsPerDay
    IN IF ~I64IsNeg(secs) THEN [day |-> q, sod |-> r] ELSE [day |-> -q, sod |-> r]

\* time.Unix(secs, nanos).UTC(): the day number since 1970-01-01 and the
\* second of that day (floor division of secs by 86400).
UnixDay(secs) ==
    LET t == secs.hi * LimbRest + secs.lo
        q == secs.hi * LimbDays + (t \div SecondsPerDay)
        r == t % SecondsPerDay
    IN IF ~I64IsNeg(secs) THEN [day |-> q, sod |-> r]
       ELSE IF r = 0 THEN [day |-> -q, sod |-> 0]
       ELSE [day |-> -q - 1, sod |-> SecondsPerDay - r]

\* The proleptic Gregorian date of a day number.
CivilFromDays(day) ==
    LET z == day + 719468
        era == z \div 146097
        doe == z - era * 146097
        yoe == (doe - (doe \div 1460) + (doe \div 36524) - (doe \div 146096)) \div 365
        doy == doe - (365 * yoe + (yoe \div 4) - (yoe \div 100))
        mp == (5 * doy + 2) \div 153
        d == doy - ((153 * mp + 2) \div 5) + 1
        mo == IF mp < 10 THEN mp + 3 ELSE mp - 9
        y == yoe + era * 400 + (IF mo <= 2 THEN 1 ELSE 0)
    IN [year |-> y, month |-> mo, day |-> d]

Pad(n, width) == ZeroPad(DecDigits(n), width)

\* t.Format("2006-01-02T15:04:05.000000000")
FormatTime(secs, nanos) ==
    LET u == UnixDay(secs)
        c == CivilFromDays(u.day)
    IN Pad(c.year, 4) \o <<"-">> \o Pad(c.month, 2) \o <<"-">> \o Pad(c.day, 2)
       \o <<"T">> \o Pad(u.sod \div 3600, 2) \o <<":">> \o Pad((u.sod % 3600) \div 60, 2)
       \o <<":">> \o Pad(u.sod % 60, 2) \o <<".">> \o Pad9(nanos)

TimestampSecondsInRange(secs) ==
    ~(I64Less(secs, minTimestampSeconds) \/ I64Less(maxTimestampSeconds, secs))

TimestampNanosInRange(nanos) == ~(nanos < 0 \/ nanos > secondsInNanos)

\* m = [seconds, nanos]
marshalTimestamp(e, m) ==
    LET secs == m.seconds
        nanos == m.nanos
    IN IF ~TimestampSecondsInRange(secs)
       THEN [out |-> e, err |-> Err("google.protobuf.Timestamp: seconds out of range %v", <<secs>>)]
       ELSE IF ~TimestampNanosInRange(nanos)
       THEN [out |-> e, err |-> Err("google.protobuf.Timestamp: nanos out of range %v", <<I64OfInt(nanos)>>)]
       ELSE [out |-> Append(e, TokString(TrimFraction(FormatTime(secs, nanos)) \o <<"Z">>)),
             err |-> NoErr]

(***************************************************************************)
(* FieldMask.                                                              *)
(***************************************************************************)
isLetter(c) == c = "_" \/ isASCIILower(c) \/ isASCIIUpper(c)
isLetterDigit(c) == isLetter(c) \/ isASCIIDigit(c)

\* The length of the identifier s[from..] starts with, or -1.
RECURSIVE IdentEnd(_, _)
IdentEnd(s, i) == IF i <= Len(s) /\ isLetterDigit(s[i]) THEN IdentEnd(s, i + 1) ELSE i

\* consumeIdent on s[from..]: the index after the identifier, or -1.
ConsumeIdent(s, from) ==
    IF from > Len(s) \/ ~isLetter(s[from]) THEN -1 ELSE IdentEnd(s, from + 1)

RECURSIVE FullNameRest(_, _)
FullNameRest(s, i) ==
    IF i > Len(s) THEN TRUE
    ELSE IF s[i] # "." THEN FALSE
    ELSE LET n == ConsumeIdent(s, i + 1)
         IN IF n < 0 THEN FALSE ELSE FullNameRest(s, n)

\* protoreflect.FullName(s).IsValid()
FullNameIsValid(s) ==
    LET i == ConsumeIdent(s, 1)
    IN IF i < 0 THEN FALSE ELSE FullNameRest(s, i)

\* strings.Join(paths, sep)
RECURSIVE Join(_, _)
Join(paths, sep) ==
    IF Len(paths) = 0 THEN <<>>
    ELSE IF Len(paths) = 1 THEN paths[1]
    ELSE paths[1] \o sep \o Join(Tail(paths), sep)

\* A loop that checks reversibility before validity.
RECURSIVE FieldMaskLoopSwapped(_, _, _, _)
FieldMaskLoopSwapped(e, list, i, paths) ==
    IF i > Len(list)
    THEN [out |-> Append(e, TokString(Join(paths, <<",">>))), err |-> NoErr]
    ELSE LET s == list[i]
             cc == JSONCamelCase(s)
         IN IF s # JSONSnakeCase(cc)
            THEN [out |-> e, err |-> Err("google.protobuf.FieldMask.paths contains irreversible value %q", <<s>>)]
            ELSE IF ~FullNameIsValid(s)
            THEN [out |-> e, err |-> Err("google.protobuf.FieldMask.paths contains invalid path: %q", <<s>>)]
            ELSE FieldMaskLoopSwapped(e, list, i + 1, Append(paths, cc))

\* The loop of marshalFieldMask from index i on, with the converted paths so far.
RECURSIVE FieldMaskLoop(_, _, _, _)
FieldMaskLoop(e, list, i, paths) ==
    IF i > Len(list)
    THEN [out |-> Append(e, TokString(Join(paths, <<",">>))), err |-> NoErr]
    ELSE LET s == list[i]
             cc == JSONCamelCase(s)
         IN IF ~FullNameIsValid(s)
            THEN [out |-> e, err |-> Err("google.protobuf.FieldMask.paths contains invalid path: %q", <<s>>)]
            ELSE IF s # JSONSnakeCase(cc)
            THEN [out |-> e, err |-> Err("google.protobuf.FieldMask.paths contains irreversible value %q", <<s>>)]
            ELSE FieldMaskLoop(e, list, i + 1, Append(paths, cc))

\* A loop that skips the reversibility check.
RECURSIVE FieldMaskLoopNoCheck(_, _, _, _)
FieldMaskLoopNoCheck(e, list, i, paths) ==
    IF i > Len(list)
    THEN [out |-> Append(e, TokString(Join(paths, <<",">>))), err |-> NoErr]
    ELSE LET s == list[i]
         IN IF ~FullNameIsValid(s)
            THEN [out |-> e, err |-> Err("google.protobuf.FieldMask.paths contains invalid path: %q", <<s>>)]
            ELSE FieldMaskLoopNoCheck(e, list, i + 1, Append(paths, JSONCamelCase(s)))

marshalFieldMaskNoCheck(e, m) == FieldMaskLoopNoCheck(e, m.paths, 1, <<>>)

\* m = [paths]
marshalFieldMask(e, m) == FieldMaskLoop(e, m.paths, 1, <<>>)

(***************************************************************************)
(* Empty.                                                                  *)
(***************************************************************************)
marshalEmpty(e, m) == [out |-> e \o <<TokStartObject, TokEndObject>>, err |-> NoErr]

(***************************************************************************)
(* The dispatcher.                                                         *)
(***************************************************************************)
FullName(parent, name) == [parent |-> parent, name |-> name]
GoogleProtobuf_package == "google.protobuf"

WrapperNames ==
    {"BoolValue", "Int32Value", "Int64Value", "UInt32Value", "UInt64Value",
     "FloatValue", "DoubleValue", "StringValue", "BytesValue"}

\* A dispatcher that looks at the short name only.
wellKnownTypeMarshalerAnyPackage(name) ==
    CASE name.name = "Timestamp" -> "marshalTimestamp"
      [] name.name = "Duration" -> "marshalDuration"
      [] name.name = "FieldMask" -> "marshalFieldMask"
      [] name.name = "Empty" -> "marshalEmpty"
      [] OTHER -> "nil"

\* The marshal function selected for a message type, "nil" when there is none.
wellKnownTypeMarshaler(name) ==
    IF name.parent = GoogleProtobuf_package
    THEN CASE name.name = "Any" -> "marshalAny"
           [] name.name = "Timestamp" -> "marshalTimestamp"
           [] name.name = "Duration" -> "marshalDuration"
           [] name.name \in WrapperNames -> "marshalWrapperType"
           [] name.name = "Struct" -> "marshalStruct"
           [] name.name = "ListValue" -> "marshalListValue"
           [] name.name = "Value" -> "marshalKnownValue"
           [] name.name = "FieldMask" -> "marshalFieldMask"
           [] name.name = "Empty" -> "marshalEmpty"
           [] OTHER -> "nil"
    ELSE "nil"

\* marshal(e, em) for the marshal functions the registry's types select.
ApplyMarshal(f, e, m) ==
    CASE f = "marshalTimestamp" -> marshalTimestamp(e, m)
      [] f = "marshalDuration" -> marshalDuration(e, m)
      [] f = "marshalFieldMask" -> marshalFieldMask(e, m)
      [] f = "marshalEmpty" -> marshalEmpty(e, m)

(***************************************************************************)
(* Messages.  A message value is a record holding its type and every field *)
(* the encoders read: seconds and nanos (Duration, Timestamp), paths       *)
(* (FieldMask), fields (a generic message: a sequence of [name, value]     *)
(* string fields in field-number order).                                   *)
(***************************************************************************)
Message(type, seconds, nanos, paths, fields) ==
    [type |-> type, seconds |-> seconds, nanos |-> nanos, paths |-> paths, fields |-> fields]

ZeroMessage(type) == Message(type, I64Zero, 0, <<>>, <<>>)

\* The generic field walk: StartObject, the "@type" member when a type URL
\* is given, one member per set field, EndObject.
RECURSIVE MarshalFields(_, _, _)
MarshalFields(e, fields, i) ==
    IF i > Len(fields) THEN [out |-> e, err |-> NoErr]
    ELSE LET r == WriteString(Append(e, TokName(JSONCamelCase(fields[i].name))), fields[i].value)
         IN IF Failed(r) THEN r ELSE MarshalFields(r.out, fields, i + 1)

marshalMessage(e, m, typeURL) ==
    LET e1 == Append(e, TokStartObject)
        r1 == IF typeURL # <<>>
              THEN WriteString(Append(e1, TokName(<<"@","t","y","p","e">>)), typeURL)
              ELSE [out |-> e1, err |-> NoErr]
    IN IF Failed(r1) THEN r1
       ELSE LET r2 == MarshalFields(r1.out, m.fields, 1)
            IN IF Failed(r2) THEN r2
               ELSE [out |-> Append(r2.out, TokEndObject), err |-> NoErr]

(***************************************************************************)
(* Any.                                                                    *)
(***************************************************************************)
U_prefix == <<"t","/">>
U_Duration == U_prefix \o <<"D","u","r">>
U_Timestamp == U_prefix \o <<"T","s">>
U_FieldMask == U_prefix \o <<"F","m">>
U_Empty == U_prefix \o <<"E">>
U_User == U_prefix \o <<"U">>
U_MyDuration == <<"m","/">> \o <<"D","u","r">>
U_BadEmpty == <<BadByte, "/">> \o <<"E">>
U_Unknown == U_prefix \o <<"X">>

\* The injected resolver: the message types it knows, by type URL.
Registry ==
    {[url |-> U_Duration, name |-> FullName(GoogleProtobuf_package, "Duration")],
     [url |-> U_Timestamp, name |-> FullName(GoogleProtobuf_package, "Timestamp")],
     [url |-> U_FieldMask, name |-> FullName(GoogleProtobuf_package, "FieldMask")],
     [url |-> U_Empty, name |-> FullName(GoogleProtobuf_package, "Empty")],
     [url |-> U_BadEmpty, name |-> FullName(GoogleProtobuf_package, "Empty")],
     [url |-> U_User, name |-> FullName("my.pkg", "User")],
     [url |-> U_MyDuration, name |-> FullName("my.pkg", "Duration")]}

\* e.opts.Resolver.FindMessageByURL(typeURL)
FindMessageByURL(typeURL) ==
    IF \E r \in Registry : r.url = typeURL
    THEN [ok |-> TRUE, name |-> (CHOOSE r \in Registry : r.url = typeURL).name]
    ELSE [ok |-> FALSE, name |-> FullName("", "")]

\* proto.UnmarshalOptions{AllowPartial: true}.Unmarshal(bytes, em): the
\* payload is [bad, msg]; empty bytes decode to the zero message.
UnmarshalPayload(payload, name) ==
    IF payload.bad THEN [ok |-> FALSE, msg |-> ZeroMessage(name)]
    ELSE [ok |-> TRUE, msg |-> [payload.msg EXCEPT !.type = name]]

EmptyPayload == [bad |-> FALSE, msg |-> ZeroMessage(FullName("", ""))]

\* m = [hasType, typeUrl, hasValue, value]
marshalAny(e, m) ==
    IF ~m.hasType
    THEN IF ~m.hasValue
         THEN [out |-> e \o <<TokStartObject, TokEndObject>>, err |-> NoErr]
         ELSE [out |-> e, err |-> Err("google.protobuf.Any: %v is not set", <<"type_url">>)]
    ELSE LET typeURL == m.typeUrl
             emt == FindMessageByURL(typeURL)
         IN IF ~emt.ok
            THEN [out |-> e, err |-> Err("google.protobuf.Any: unable to resolve %q: %v", <<typeURL>>)]
            ELSE LET em == UnmarshalPayload(IF m.hasValue THEN m.value ELSE EmptyPayload, emt.name)
                     marshal == wellKnownTypeMarshaler(emt.name)
                 IN IF ~em.ok
                    THEN [out |-> e, err |-> Err("google.protobuf.Any: unable to unmarshal %q: %v", <<typeURL>>)]
                    ELSE IF marshal # "nil"
                    THEN LET r1 == WriteString(e \o <<TokStartObject, TokName(<<"@","t","y","p","e">>)>>, typeURL)
                         IN IF Failed(r1)
                            THEN [out |-> Append(r1.out, TokEndObject), err |-> r1.err]
                            ELSE LET r2 == ApplyMarshal(marshal, Append(r1.out, TokName(<<"v","a","l","u","e">>)), em.msg)
                                 IN [out |-> Append(r2.out, TokEndObject), err |-> r2.err]
                    ELSE marshalMessage(e, em.msg, typeURL)

(***************************************************************************)
(* JSON text.                                                              *)
(***************************************************************************)
TokNumber(digits) == [t |-> "number", v |-> digits]

\* The compact JSON text of a token sequence.
RECURSIVE RenderFrom(_, _, _)
RenderFrom(toks, i, needComma) ==
    IF i > Len(toks) THEN <<>>
    ELSE LET tk == toks[i]
             sep == IF needComma /\ tk.t # "}" THEN <<",">> ELSE <<>>
             text == CASE tk.t = "{" -> <<"{">>
                       [] tk.t = "}" -> <<"}">>
                       [] tk.t = "name" -> <<"\"">> \o tk.v \o <<"\"", ":">>
                       [] tk.t = "string" -> <<"\"">> \o tk.v \o <<"\"">>
                       [] tk.t = "number" -> tk.v
         IN sep \o text \o RenderFrom(toks, i + 1, tk.t \in {"}", "string", "number"})

Render(toks) == RenderFrom(toks, 1, FALSE)

(***************************************************************************)
(* encoding/json on a plain Go value.  A Go value is [k, s, i, nil, fields]:*)
(* k is "string", "int", "struct", "ptr" (a pointer to a struct) or "chan"; *)
(* a field is [name, tag, omitempty, exported, val].                       *)
(***************************************************************************)
GoVal(k, str, int, nil, fields) == [k |-> k, s |-> str, i |-> int, nil |-> nil, fields |-> fields]
GoString(str) == GoVal("string", str, I64Zero, FALSE, <<>>)
GoInt(int) == GoVal("int", <<>>, int, FALSE, <<>>)
GoStruct(fields) == GoVal("struct", <<>>, I64Zero, FALSE, fields)
GoPtr(fields) == GoVal("ptr", <<>>, I64Zero, FALSE, fields)
GoNil == GoVal("ptr", <<>>, I64Zero, TRUE, <<>>)
GoChan == GoVal("chan", <<>>, I64Zero, FALSE, <<>>)
GoField(name, tag, omitempty, exported, val) ==
    [name |-> name, tag |-> tag, omitempty |-> omitempty, exported |-> exported, val |-> val]

\* encoding/json's isEmptyValue
GoIsEmpty(v) ==
    CASE v.k = "string" -> v.s = <<>>
      [] v.k = "int" -> I64IsZero(v.i)
      [] v.k = "ptr" -> v.nil
      [] OTHER -> FALSE

FormatI64(x) == (IF I64IsNeg(x) THEN <<"-">> ELSE <<>>) \o FormatMag(x)

\* A value that is not a struct: a string, a number, null, or unsupported.
GoEncodeScalar(e, v) ==
    CASE v.k = "string" -> WriteString(e, v.s)
      [] v.k = "int" -> [out |-> Append(e, TokNumber(FormatI64(v.i))), err |-> NoErr]
      [] v.k = "chan" -> [out |-> e, err |-> Err("json: unsupported type: %s", <<"chan">>)]
      [] OTHER -> [out |-> Append(e, TokNumber(<<"n","u","l","l">>)), err |-> NoErr]

GoIsObject(v) == v.k = "struct" \/ (v.k = "ptr" /\ ~v.nil)

\* The members of a struct from field i on; an unexported field and an
\* empty omitempty field are skipped, the key is the tag name or the Go name.
\* The bytes of a finished encoder, or nil and the error.
BytesOf(r) ==
    IF Failed(r) THEN [bytes |-> <<>>, err |-> r.err]
    ELSE [bytes |-> Render(r.out), err |-> NoErr]

RECURSIVE GoEncodeFields(_, _, _)
GoEncodeFields(e, fields, i) ==
    IF i > Len(fields) THEN [out |-> e, err |-> NoErr]
    ELSE LET f == fields[i]
         IN IF ~f.exported \/ (f.omitempty /\ GoIsEmpty(f.val))
            THEN GoEncodeFields(e, fields, i + 1)
            ELSE LET key == IF f.tag # <<>> THEN f.tag ELSE f.name
                     e1 == Append(e, TokName(key))
                     r == IF GoIsObject(f.val)
                          THEN LET q == GoEncodeFields(Append(e1, TokStartObject), f.val.fields, 1)
                               IN IF Failed(q) THEN q
                                  ELSE [out |-> Append(q.out, TokEndObject), err |-> NoErr]
                          ELSE GoEncodeScalar(e1, f.val)
                 IN IF Failed(r) THEN r ELSE GoEncodeFields(r.out, fields, i + 1)

GoEncode(e, v) ==
    IF GoIsObject(v)
    THEN LET r == GoEncodeFields(Append(e, TokStartObject), v.fields, 1)
         IN IF Failed(r) THEN r
            ELSE [out |-> Append(r.out, TokEndObject), err |-> NoErr]
    ELSE GoEncodeScalar(e, v)

\* json.Marshal(v): (bytes, err)
jsonMarshal(v) == BytesOf(GoEncode(<<>>, v))

(***************************************************************************)
(* JSONPb.  A value handed to Marshal is [proto, msg, go]: a proto.Message *)
(* (msg) or any other Go value (go).                                       *)
(***************************************************************************)
ProtoValue(m) == [proto |-> TRUE, msg |-> m, go |-> GoNil]
PlainValue(g) == [proto |-> FALSE, msg |-> ZeroMessage(FullName("", "")), go |-> g]

AnyMessage(hasType, typeUrl, hasValue, value) ==
    [type |-> FullName(GoogleProtobuf_package, "Any"),
     hasType |-> hasType, typeUrl |-> typeUrl, hasValue |-> hasValue, value |-> value]

\* The canonical encoder on a top-level message.
EncodeMessage(m) ==
    LET marshal == wellKnownTypeMarshaler(m.type)
    IN IF marshal = "marshalAny" THEN marshalAny(<<>>, m)
       ELSE IF marshal # "nil" THEN ApplyMarshal(marshal, <<>>, m)
       ELSE marshalMessage(<<>>, m, <<>>)

\* j.MarshalOptions.Marshal(p): (bytes, err)
OptionsMarshal(p) == BytesOf(EncodeMessage(p))

\* v.(proto.Message)
IsProtoMessage(v) == v.proto

\* What marshalTo produces before it writes: (b, err).
MarshalBytes(v) == IF ~IsProtoMessage(v) THEN jsonMarshal(v.go) ELSE OptionsMarshal(v.msg)

\* j.marshalTo(w, v) on a writer that does not fail: the writer's new
\* content and the error.
WriteTo(wr, r) ==
    IF Failed(r) THEN [w |-> wr, err |-> r.err]
    ELSE [w |-> wr \o r.bytes, err |-> NoErr]

marshalTo(wr, v) == WriteTo(wr, MarshalBytes(v))

\* JSONPb.Marshal(v): (bytes, err), the buffer being local to the call.
BufferBytes(r) ==
    IF Failed(r) THEN [bytes |-> <<>>, err |-> r.err]
    ELSE [bytes |-> r.w, err |-> NoErr]

Marshal(v) ==
    IF ~IsProtoMessage(v) THEN jsonMarshal(v.go)
    ELSE BufferBytes(marshalTo(<<>>, v))

Delimiter == <<"\n">>

(***************************************************************************)
(* Inputs.                                                                 *)
(***************************************************************************)
RECURSIVE Pow10(_)
Pow10(k) == IF k = 0 THEN 1 ELSE 10 * Pow10(k - 1)

MaxInt32 == 2147483647

NanoMantissas == {0, 1, 5, 12, 123, 999, 1001, 999999999}

\* int32 magnitudes mantissa * 10^k
NanoMagnitudes ==
    {m * Pow10(k) : <<m, k>> \in
        {mk \in NanoMantissas \X {j \in 0..MaxExp : j <= 9} : mk[1] <= MaxInt32 \div Pow10(mk[2])}}

NanosSamples == NanoMagnitudes \cup {-n : n \in NanoMagnitudes}

DurationMagnitudes ==
    {I64(FALSE, 0, 0), I64(FALSE, 0, 1), I64(FALSE, 0, 12), I64(FALSE, 0, 1000),
     I64(FALSE, 0, 999999999), I64(FALSE, 1, 0), I64(FALSE, 1, 1000),
     I64(FALSE, 315, 576000000), I64(FALSE, 315, 576000001), I64(FALSE, 4000, 0)}

DurationSecondsSamples == DurationMagnitudes \cup {I64Negate(x) : x \in DurationMagnitudes}

TimestampSecondsSamples ==
    {I64(FALSE, 0, 0), I64(FALSE, 0, 1), I64(TRUE, 0, 1), I64(FALSE, 1, 693267200),
     I64(TRUE, 62, 135596800), I64(TRUE, 62, 135596801),
     I64(FALSE, 253, 402300799), I64(FALSE, 253, 402300800),
     I64(FALSE, 0, 951782400), I64(FALSE, 0, 951868799), I64(FALSE, 0, 951868800),
     I64(FALSE, 4, 107542399), I64(FALSE, 4, 107542400), I64(TRUE, 2, 203891200),
     I64(TRUE, 11, 644473600), I64(FALSE, 1, 709251199), I64(FALSE, 0, 68169600),
     I64(FALSE, 1, 0), I64(FALSE, 0, 999999999), I64(TRUE, 1, 0),
     I64(FALSE, 0, 86399), I64(FALSE, 0, 86400), I64(TRUE, 0, 86400), I64(TRUE, 0, 86401),
     I64(FALSE, 13, 574563200), I64(FALSE, 32, 503679999)}

PathAlphabet == {"a", "B", "_", ".", "1", "-"}

RECURSIVE StringsOfLen(_)
StringsOfLen(n) ==
    IF n = 0 THEN {<<>>}
    ELSE {Append(s, c) : s \in StringsOfLen(n - 1), c \in PathAlphabet}

Identifiers == UNION {StringsOfLen(n) : n \in 0..MaxPathLen}

P_foo_bar == <<"f","o","o","_","b","a","r">>
P_foo__bar == <<"f","o","o","_","_","b","a","r">>
P_fooBar == <<"f","o","o","B","a","r">>
P_a_b_c == <<"a",".","b","_","c">>
P_leading == <<"_","a">>

PathSamples == {P_foo_bar, P_foo__bar, P_fooBar, P_a_b_c, P_leading, <<>>}

RECURSIVE SeqsUpTo(_, _)
SeqsUpTo(S, n) ==
    IF n = 0 THEN {<<>>}
    ELSE LET shorter == SeqsUpTo(S, n - 1)
         IN shorter \cup {Append(q, x) : q \in {r \in shorter : Len(r) = n - 1}, x \in S}

FieldMaskSamples ==
    {<<s>> : s \in Identifiers} \cup SeqsUpTo(PathSamples, MaxPaths)

DurationType == FullName(GoogleProtobuf_package, "Duration")
TimestampType == FullName(GoogleProtobuf_package, "Timestamp")
FieldMaskType == FullName(GoogleProtobuf_package, "FieldMask")
EmptyType == FullName(GoogleProtobuf_package, "Empty")
UserType == FullName("my.pkg", "User")

DurationMessage(secs, nanos) == Message(DurationType, secs, nanos, <<>>, <<>>)
TimestampMessage(secs, nanos) == Message(TimestampType, secs, nanos, <<>>, <<>>)
FieldMaskMessage(paths) == Message(FieldMaskType, I64Zero, 0, paths, <<>>)

UserFields == <<[name |-> <<"u","_","i","d">>, value |-> <<"x">>]>>
BadUserFields == <<[name |-> <<"i","d">>, value |-> <<BadByte>>]>>

\* Payloads of an Any: the wire bytes, by what they decode to.
PayloadSamples ==
    {[bad |-> TRUE, msg |-> ZeroMessage(FullName("", ""))],
     [bad |-> FALSE, msg |-> Message(FullName("", ""), I64(FALSE, 0, 1), 500000000, <<>>, <<>>)],
     [bad |-> FALSE, msg |-> Message(FullName("", ""), I64(FALSE, 1, 693267200), 0, <<>>, <<>>)],
     [bad |-> FALSE, msg |-> Message(FullName("", ""), I64(FALSE, 0, 1), -1, <<>>, <<>>)],
     [bad |-> FALSE, msg |-> Message(FullName("", ""), I64Zero, 0, <<P_foo_bar, P_a_b_c>>, UserFields)],
     [bad |-> FALSE, msg |-> Message(FullName("", ""), I64Zero, 0, <<P_foo__bar>>, BadUserFields)]}

TypeURLs == {r.url : r \in Registry} \cup {U_Unknown}

AnySamples ==
    {AnyMessage(FALSE, <<>>, FALSE, EmptyPayload)}
    \cup {AnyMessage(FALSE, <<>>, TRUE, v) : v \in PayloadSamples}
    \cup {AnyMessage(TRUE, u, FALSE, EmptyPayload) : u \in TypeURLs}
    \cup {AnyMessage(TRUE, u, TRUE, v) : u \in TypeURLs, v \in PayloadSamples}

\* The tokens an encoder may find already written when it is called.
EncoderPrefixes == {<<>>, <<TokStartObject, TokName(<<"f">>)>>}

\* TestStruct{Id: "id", ManagerId: 1 << 54, CreatedAt: timestamppb.New(2023-08-29)}
TimestampGoFields(secs, nanos) ==
    <<GoField(<<"s","t","a","t","e">>, <<>>, FALSE, FALSE, GoNil),
      GoField(<<"S","e","c","o","n","d","s">>, <<"s","e","c","o","n","d","s">>, TRUE, TRUE, GoInt(secs)),
      GoField(<<"N","a","n","o","s">>, <<"n","a","n","o","s">>, TRUE, TRUE, GoInt(I64OfInt(nanos)))>>

TestStruct(id, managerId, createdAt) ==
    GoStruct(<<GoField(<<"I","d">>, <<>>, FALSE, TRUE, GoString(id)),
               GoField(<<"M","a","n","a","g","e","r","I","d">>, <<>>, FALSE, TRUE, GoInt(managerId)),
               GoField(<<"C","r","e","a","t","e","d","A","t">>, <<>>, FALSE, TRUE, createdAt)>>)

TwoTo54 == I64(FALSE, 18014398, 509481984)

TestStructValue ==
    PlainValue(TestStruct(<<"i","d">>, TwoTo54, GoPtr(TimestampGoFields(I64(FALSE, 1, 693267200), 0))))

PlainSamples ==
    {TestStructValue,
     PlainValue(TestStruct(<<>>, I64(TRUE, 0, 7), GoNil)),
     PlainValue(TestStruct(<<"i","d">>, I64Zero, GoPtr(TimestampGoFields(I64(FALSE, 0, 1), 5)))),
     PlainValue(GoString(<<"i","d">>)),
     PlainValue(GoInt(TwoTo54)),
     PlainValue(GoChan),
     PlainValue(GoStruct(<<GoField(<<"C">>, <<>>, FALSE, TRUE, GoChan)>>))}

ProtoSamples ==
    {ProtoValue(DurationMessage(I64(FALSE, 0, 1), 500000000)),
     ProtoValue(DurationMessage(I64(FALSE, 315, 576000001), 0)),
     ProtoValue(TimestampMessage(I64(FALSE, 1, 693267200), 0)),
     ProtoValue(TimestampMessage(I64(FALSE, 0, 0), -1)),
     ProtoValue(FieldMaskMessage(<<P_foo_bar, P_a_b_c>>)),
     ProtoValue(FieldMaskMessage(<<P_foo__bar>>)),
     ProtoValue(ZeroMessage(EmptyType)),
     ProtoValue(Message(UserType, I64Zero, 0, <<>>, UserFields)),
     ProtoValue(Message(UserType, I64Zero, 0, <<>>, BadUserFields))}
    \cup {ProtoValue(a) : a \in AnySamples}

MarshalValues == PlainSamples \cup ProtoSamples

\* The values of the stream and of the concurrent calls.
StreamValues ==
    {TestStructValue,
     PlainValue(GoChan),
     ProtoValue(DurationMessage(I64(FALSE, 0, 1), 500000000)),
     ProtoValue(DurationMessage(I64(FALSE, 315, 576000001), 0)),
     ProtoValue(ZeroMessage(EmptyType))}

(***************************************************************************)
(* The encoders and converters, one call at a time.                        *)
(***************************************************************************)
NoCall == [op |-> "none", e |-> <<>>, arg |-> <<>>]
NoRes == [out |-> <<>>, err |-> NoErr]
Procs == 1..NumCalls

IdleOthers ==
    /\ w = <<>>
    /\ calls = <<>>
    /\ pc = [p \in Procs |-> "idle"]
    /\ arg = [p \in Procs |-> PlainValue(GoNil)]
    /\ buf = [p \in Procs |-> <<>>]
    /\ ret = [p \in Procs |-> [bytes |-> <<>>, err |-> NoErr]]

Init ==
    /\ call = NoCall
    /\ res = NoRes
    /\ IdleOthers

AsResult(r) == [out |-> r.bytes, err |-> r.err]

CallJSONCamelCase ==
    /\ call = NoCall
    /\ \E s \in Identifiers \cup PathSamples :
          /\ call' = [op |-> "JSONCamelCase", e |-> <<>>, arg |-> s]
          /\ res' = [out |-> JSONCamelCase(s), err |-> NoErr]
    /\ UNCHANGED <<w, calls, pc, arg, buf, ret>>

CallJSONSnakeCase ==
    /\ call = NoCall
    /\ \E s \in Identifiers \cup PathSamples :
          /\ call' = [op |-> "JSONSnakeCase", e |-> <<>>, arg |-> s]
          /\ res' = [out |-> JSONSnakeCase(s), err |-> NoErr]
    /\ UNCHANGED <<w, calls, pc, arg, buf, ret>>

CallMarshalDuration ==
    /\ call = NoCall
    /\ \E e \in EncoderPrefixes, secs \in DurationSecondsSamples, nanos \in NanosSamples :
          /\ call' = [op |-> "marshalDuration", e |-> e, arg |-> DurationMessage(secs, nanos)]
          /\ res' = marshalDuration(e, DurationMessage(secs, nanos))
    /\ UNCHANGED <<w, calls, pc, arg, buf, ret>>

CallMarshalTimestamp ==
    /\ call = NoCall
    /\ \E e \in EncoderPrefixes, secs \in TimestampSecondsSamples, nanos \in NanosSamples :
          /\ call' = [op |-> "marshalTimestamp", e |-> e, arg |-> TimestampMessage(secs, nanos)]
          /\ res' = marshalTimestamp(e, TimestampMessage(secs, nanos))
    /\ UNCHANGED <<w, calls, pc, arg, buf, ret>>

CallMarshalFieldMask ==
    /\ call = NoCall
    /\ \E e \in EncoderPrefixes, paths \in FieldMaskSamples :
          /\ call' = [op |-> "marshalFieldMask", e |-> e, arg |-> FieldMaskMessage(paths)]
          /\ res' = marshalFieldMask(e, FieldMaskMessage(paths))
    /\ UNCHANGED <<w, calls, pc, arg, buf, ret>>

CallMarshalAny ==
    /\ call = NoCall
    /\ \E e \in EncoderPrefixes, m \in AnySamples :
          /\ call' = [op |-> "marshalAny", e |-> e, arg |-> m]
          /\ res' = marshalAny(e, m)
    /\ UNCHANGED <<w, calls, pc, arg, buf, ret>>

CallMarshal ==
    /\ call = NoCall
    /\ \E v \in MarshalValues :
          /\ call' = [op |-> "Marshal", e |-> <<>>, arg |-> v]
          /\ res' = AsResult(Marshal(v))
    /\ UNCHANGED <<w, calls, pc, arg, buf, ret>>

\* The caller takes the result; the next call starts from a fresh encoder.
Return ==
    /\ call # NoCall
    /\ call' = NoCall
    /\ res' = NoRes
    /\ UNCHANGED <<w, calls, pc, arg, buf, ret>>

Next ==
    \/ CallJSONCamelCase
    \/ CallJSONSnakeCase
    \/ CallMarshalDuration
    \/ CallMarshalTimestamp
    \/ CallMarshalFieldMask
    \/ CallMarshalAny
    \/ CallMarshal
    \/ Return

Spec == Init /\ [][Next]_vars

(***************************************************************************)
(* The stream encoder returned by NewEncoder(w), on a writer that does not *)
(* fail.                                                                   *)
(***************************************************************************)
\* An Encode that writes the delimiter whether or not marshalling failed.
EncodeWriteAlways(r) == [w |-> r.w \o Delimiter, err |-> r.err]

\* The rest of Encode after marshalTo returned r = [w, err].
EncodeWrite(r) ==
    IF Failed(r) THEN r
    ELSE [w |-> r.w \o Delimiter, err |-> NoErr]

Encode ==
    /\ Len(calls) < MaxCalls
    /\ \E v \in StreamValues :
          /\ call' = [op |-> "Encode", e |-> <<>>, arg |-> v]
          /\ w' = EncodeWrite(marshalTo(w, v)).w
          /\ res' = [out |-> <<>>, err |-> EncodeWrite(marshalTo(w, v)).err]
          /\ calls' = Append(calls, v)
    /\ UNCHANGED <<pc, arg, buf, ret>>

NextEncoder == Encode

SpecEncoder == Init /\ [][NextEncoder]_vars

(***************************************************************************)
(* Concurrent Marshal calls on one JSONPb value.  The JSONPb value is only *)
(* read; each call's buffer is the local "var buf bytes.Buffer".           *)
(***************************************************************************)
\* One buffer shared by every call.
BufOfShared(p) == 1

\* The buffer call p writes and reads.
BufOf(p) == p

Begin(p) ==
    /\ pc[p] = "idle"
    /\ \E v \in StreamValues :
          /\ arg' = [arg EXCEPT ![p] = v]
          /\ pc' = [pc EXCEPT ![p] = IF IsProtoMessage(v) THEN "marshalTo" ELSE "json"]
          /\ buf' = IF IsProtoMessage(v) THEN [buf EXCEPT ![BufOf(p)] = <<>>] ELSE buf
    /\ UNCHANGED <<call, res, w, calls, ret>>

JSONStep(p) ==
    /\ pc[p] = "json"
    /\ ret' = [ret EXCEPT ![p] = jsonMarshal(arg[p].go)]
    /\ pc' = [pc EXCEPT ![p] = "done"]
    /\ UNCHANGED <<call, res, w, calls, arg, buf>>

MarshalToStep(p) ==
    /\ pc[p] = "marshalTo"
    /\ IF Failed(MarshalBytes(arg[p]))
       THEN /\ ret' = [ret EXCEPT ![p] = [bytes |-> <<>>, err |-> MarshalBytes(arg[p]).err]]
            /\ pc' = [pc EXCEPT ![p] = "done"]
            /\ buf' = buf
       ELSE /\ buf' = [buf EXCEPT ![BufOf(p)] = marshalTo(buf[BufOf(p)], arg[p]).w]
            /\ pc' = [pc EXCEPT ![p] = "return"]
            /\ ret' = ret
    /\ UNCHANGED <<call, res, w, calls, arg>>

ReturnStep(p) ==
    /\ pc[p] = "return"
    /\ ret' = [ret EXCEPT ![p] = [bytes |-> buf[BufOf(p)], err |-> NoErr]]
    /\ pc' = [pc EXCEPT ![p] = "done"]
    /\ UNCHANGED <<call, res, w, calls, arg, buf>>

NextConcurrent ==
    \E p \in Procs :
        \/ Begin(p)
        \/ JSONStep(p)
        \/ MarshalToStep(p)
        \/ ReturnStep(p)

SpecConcurrent == Init /\ [][NextConcurrent]_vars

(***************************************************************************)
(* Properties.                                                             *)
(***************************************************************************)
AllDigits(ds) == \A i \in DOMAIN ds : isASCIIDigit(ds[i])

DigitValue(c) == IndexOf(c, DigitChars) - 1

\* The number a sequence of at most nine digits denotes.
RECURSIVE DigitsValue(_)
DigitsValue(ds) ==
    IF Len(ds) = 0 THEN 0
    ELSE 10 * DigitsValue(SubSeq(ds, 1, Len(ds) - 1)) + DigitValue(ds[Len(ds)])

\* The magnitude a digit sequence denotes, as two limbs.
DigitsToMag(ds) ==
    IF Len(ds) <= 9 THEN I64(FALSE, 0, DigitsValue(ds))
    ELSE I64(FALSE, DigitsValue(SubSeq(ds, 1, Len(ds) - 9)),
                    DigitsValue(SubSeq(ds, Len(ds) - 8, Len(ds))))

CanonicalDigits(ds) == Len(ds) >= 1 /\ AllDigits(ds) /\ (Len(ds) = 1 \/ ds[1] # "0")

PosOf(x, c) == IF \E i \in DOMAIN x : x[i] = c
               THEN CHOOSE i \in DOMAIN x : x[i] = c /\ \A j \in 1..(i - 1) : x[j] # c
               ELSE 0

Count(x, c) == Cardinality({i \in DOMAIN x : x[i] = c})

AbsInt(n) == IF n < 0 THEN -n ELSE n

\* frac is no fraction or 3, 6 or 9 digits, denotes nanos exactly, and no
\* shorter of these lengths does.
FractionDenotes(frac, nanos) ==
    /\ Len(frac) \in {0, 3, 6, 9}
    /\ AllDigits(frac)
    /\ DigitsValue(frac) * Pow10(9 - Len(frac)) = nanos
    /\ \A shorter \in {0, 3, 6} : shorter < Len(frac) => nanos % Pow10(9 - shorter) # 0

\* The encoder wrote exactly one token, the string x, after what was there.
WroteString(x) == res.out = Append(call.e, TokString(x))
WroteOneString ==
    /\ Len(res.out) = Len(call.e) + 1
    /\ res.out[Len(res.out)].t = "string"
    /\ SubSeq(res.out, 1, Len(call.e)) = call.e
LastString == res.out[Len(res.out)].v
WroteNothing == res.out = call.e

DurationAccepted(secs, nanos) ==
    /\ ~MagLess(maxSecondsInDuration, secs)
    /\ AbsInt(nanos) <= 999999999
    /\ ~(~I64IsZero(secs) /\ nanos # 0 /\ (secs.neg # (nanos < 0)))

\* x is the duration text of (secs, nanos).
DurationText(x, secs, nanos) ==
    LET negative == I64IsNeg(secs) \/ nanos < 0
        t == IF negative THEN Tail(x) ELSE x
        dot == PosOf(t, ".")
        intPart == SubSeq(t, 1, IF dot = 0 THEN Len(t) - 1 ELSE dot - 1)
        frac == IF dot = 0 THEN <<>> ELSE SubSeq(t, dot + 1, Len(t) - 1)
    IN /\ Len(x) >= 2
       /\ negative => x[1] = "-"
       /\ Count(x, "-") = (IF negative THEN 1 ELSE 0)
       /\ Len(t) >= 2 /\ t[Len(t)] = "s"
       /\ CanonicalDigits(intPart)
       /\ DigitsToMag(intPart) = I64Abs(secs)
       /\ dot # 0 => Len(frac) > 0
       /\ FractionDenotes(frac, AbsInt(nanos))

S_1_500s == <<"1",".","5","0","0","s">>
S_0s == <<"0","s">>
S_m1_500s == <<"-","1",".","5","0","0","s">>

\* C1: every Duration that passes validation is written as one string:
\* optional '-', the decimal digits of |seconds|, no fraction or '.' and
\* exactly 3, 6 or 9 digits, then 's'; the '-' appears once and exactly when
\* seconds < 0 or nanos < 0; the fraction denotes |nanos| in the shortest of
\* the lengths 0/3/6/9; (1, 500000000) gives "1.500s", (0, 0) gives "0s" and
\* (-1, -500000000) gives "-1.500s".
C1_DurationFormat ==
    (call.op = "marshalDuration" /\ DurationAccepted(call.arg.seconds, call.arg.nanos)) =>
        /\ ~Failed(res)
        /\ WroteOneString
        /\ DurationText(LastString, call.arg.seconds, call.arg.nanos)
        /\ (call.arg.seconds = I64(FALSE, 0, 1) /\ call.arg.nanos = 500000000) => LastString = S_1_500s
        /\ (call.arg.seconds = I64Zero /\ call.arg.nanos = 0) => LastString = S_0s
        /\ (call.arg.seconds = I64(TRUE, 0, 1) /\ call.arg.nanos = -500000000) => LastString = S_m1_500s

\* A negative duration with a six-digit fraction was written.
C1_Witness ==
    /\ call.op = "marshalDuration"
    /\ call.arg.seconds = I64(TRUE, 315, 576000000)
    /\ call.arg.nanos = -1000
    /\ ~Failed(res)
    /\ WroteString(<<"-","3","1","5","5","7","6","0","0","0","0","0","0",".","0","0","0","0","0","1","s">>)

\* The field an error text names, and whether the text carries a value.
ErrNamesField(err, field) ==
    CASE field = "seconds" ->
            err.text \in {"google.protobuf.Duration: seconds out of range %v",
                          "google.protobuf.Duration: signs of seconds and nanos do not match",
                          "google.protobuf.Timestamp: seconds out of range %v"}
      [] field = "nanos" ->
            err.text \in {"google.protobuf.Duration: nanos out of range %v",
                          "google.protobuf.Duration: signs of seconds and nanos do not match",
                          "google.protobuf.Timestamp: nanos out of range %v"}
ErrNamesValue(err, value) == Len(err.args) = 1 /\ err.args[1] = value

IsRangeError(err) ==
    err.text \in {"google.protobuf.Duration: seconds out of range %v",
                  "google.protobuf.Duration: nanos out of range %v",
                  "google.protobuf.Timestamp: seconds out of range %v",
                  "google.protobuf.Timestamp: nanos out of range %v"}
IsSignMismatch(err) ==
    err.text = "google.protobuf.Duration: signs of seconds and nanos do not match"

DurationSecondsBad(secs) == MagLess(maxSecondsInDuration, secs)
DurationNanosBad(nanos) == AbsInt(nanos) > 999999999
DurationSignsBad(secs, nanos) ==
    ~I64IsZero(secs) /\ nanos # 0 /\ (secs.neg # (nanos < 0))

\* Which failure is reported, and that a failure writes nothing.
DurationFailure(secs, nanos) ==
    /\ Failed(res) <=> (DurationSecondsBad(secs) \/ DurationNanosBad(nanos) \/ DurationSignsBad(secs, nanos))
    /\ Failed(res) => WroteNothing
    /\ DurationSecondsBad(secs) =>
          IsRangeError(res.err) /\ ErrNamesField(res.err, "seconds") /\ ErrNamesValue(res.err, secs)
    /\ (~DurationSecondsBad(secs) /\ DurationNanosBad(nanos)) =>
          IsRangeError(res.err) /\ ErrNamesField(res.err, "nanos") /\ ErrNamesValue(res.err, I64OfInt(nanos))
    /\ (~DurationSecondsBad(secs) /\ ~DurationNanosBad(nanos) /\ DurationSignsBad(secs, nanos)) =>
          IsSignMismatch(res.err)

\* C2 as stated: the Duration encoder fails, writing nothing, exactly on a
\* seconds range, nanos range or sign violation, reports the first of these
\* that holds, and every such error names the offending field and its value.
C2_Original ==
    call.op = "marshalDuration" =>
        /\ DurationFailure(call.arg.seconds, call.arg.nanos)
        /\ Failed(res) =>
              \/ ErrNamesField(res.err, "seconds") /\ ErrNamesValue(res.err, call.arg.seconds)
              \/ ErrNamesField(res.err, "nanos") /\ ErrNamesValue(res.err, I64OfInt(call.arg.nanos))

\* C2 (amended): the Duration encoder fails, writing nothing, exactly on a
\* seconds range, nanos range or sign violation and reports the first of
\* these that holds; a range error names the offending field and its value,
\* the sign-mismatch error names both fields and carries no value.
C2_DurationErrors ==
    call.op = "marshalDuration" =>
        /\ DurationFailure(call.arg.seconds, call.arg.nanos)
        /\ IsSignMismatch(res.err) =>
              /\ ErrNamesField(res.err, "seconds")
              /\ ErrNamesField(res.err, "nanos")
              /\ res.err.args = <<>>
        /\ (call.arg.seconds = I64(FALSE, 315, 576000001)) => IsRangeError(res.err)
        /\ (call.arg.seconds = I64(FALSE, 0, 1) /\ call.arg.nanos = -1) => IsSignMismatch(res.err)

\* Seconds and nanos are both out of range: the seconds error is reported.
C2_Witness ==
    /\ call.op = "marshalDuration"
    /\ call.arg.seconds = I64(TRUE, 315, 576000001)
    /\ call.arg.nanos = 1000000000
    /\ res.err = Err("google.protobuf.Duration: seconds out of range %v", <<I64(TRUE, 315, 576000001)>>)
    /\ WroteNothing

\* The day number of a proleptic Gregorian date.
DaysFromCivil(y, mo, d) ==
    LET y2 == IF mo <= 2 THEN y - 1 ELSE y
        era == y2 \div 400
        yoe == y2 - era * 400
        mp == (mo + 9) % 12
        doy == ((153 * mp + 2) \div 5) + d - 1
        doe == yoe * 365 + (yoe \div 4) - (yoe \div 100) + doy
    IN era * 146097 + doe - 719468

IsLeapYear(y) == y % 4 = 0 /\ (y % 100 # 0 \/ y % 400 = 0)
DaysInMonth(y, mo) ==
    IF mo = 2 THEN (IF IsLeapYear(y) THEN 29 ELSE 28)
    ELSE IF mo \in {4, 6, 9, 11} THEN 30 ELSE 31

\* day * 86400 + sod as an int64.
SecondsOf(day, sod) ==
    LET n == AbsInt(day)
        h == n \div 11574
        k == n % 11574
        t == IF day >= 0 THEN k * 86400 - h * 6400 + sod ELSE k * 86400 - h * 6400 - sod
    IN IF t < 0 THEN I64(day < 0, h - 1, t + 1000000000) ELSE I64(day < 0, h, t)

TimestampAccepted(secs, nanos) ==
    /\ ~I64Less(secs, I64(TRUE, 62, 135596800))
    /\ ~I64Less(I64(FALSE, 253, 402300799), secs)
    /\ nanos >= 0 /\ nanos <= 999999999

\* x is YYYY-MM-DDTHH:MM:SS of secs in UTC, the shortest fraction of nanos, Z.
TimestampText(x, secs, nanos) ==
    LET num(a, b) == DigitsValue(SubSeq(x, a, b))
        frac == IF Len(x) = 20 THEN <<>> ELSE SubSeq(x, 21, Len(x) - 1)
    IN /\ Len(x) \in {20, 24, 27, 30}
       /\ \A i \in {1, 2, 3, 4, 6, 7, 9, 10, 12, 13, 15, 16, 18, 19} : isASCIIDigit(x[i])
       /\ x[5] = "-" /\ x[8] = "-" /\ x[11] = "T" /\ x[14] = ":" /\ x[17] = ":"
       /\ x[Len(x)] = "Z"
       /\ Len(x) > 20 => x[20] = "."
       /\ num(6, 7) \in 1..12
       /\ num(9, 10) \in 1..DaysInMonth(num(1, 4), num(6, 7))
       /\ num(12, 13) < 24 /\ num(15, 16) < 60 /\ num(18, 19) < 60
       /\ SecondsOf(DaysFromCivil(num(1, 4), num(6, 7), num(9, 10)),
                    num(12, 13) * 3600 + num(15, 16) * 60 + num(18, 19)) = secs
       /\ Len(frac) \in {0, 3, 6, 9}
       /\ FractionDenotes(frac, nanos)

S_2023_08_29 ==
    <<"2","0","2","3","-","0","8","-","2","9","T","0","0",":","0","0",":","0","0","Z">>

\* C3: the Timestamp encoder succeeds exactly when seconds is in
\* [-62135596800, 253402300799] and nanos in [0, 999999999], and otherwise
\* fails with a range error and writes nothing; on success it writes the UTC
\* rendering YYYY-MM-DDTHH:MM:SS of seconds, no fraction or '.' and exactly
\* 3, 6 or 9 digits denoting nanos in the shortest of these lengths, then 'Z';
\* (1693267200, 0) gives "2023-08-29T00:00:00Z".
C3_TimestampFormat ==
    call.op = "marshalTimestamp" =>
        /\ Failed(res) <=> ~TimestampAccepted(call.arg.seconds, call.arg.nanos)
        /\ Failed(res) => IsRangeError(res.err) /\ WroteNothing
        /\ ~Failed(res) =>
              /\ WroteOneString
              /\ TimestampText(LastString, call.arg.seconds, call.arg.nanos)
        /\ (call.arg.seconds = I64(FALSE, 1, 693267200) /\ call.arg.nanos = 0) =>
              LastString = S_2023_08_29

\* The first second of year 1 with a three-digit fraction was written.
C3_Witness ==
    /\ call.op = "marshalTimestamp"
    /\ call.arg.seconds = I64(TRUE, 62, 135596800)
    /\ call.arg.nanos = 120000000
    /\ WroteString(<<"0","0","0","1","-","0","1","-","0","1","T","0","0",":","0","0",":","0","0",
                     ".","1","2","0","Z">>)

\* strings.Split(x, c) for a one-character separator.
RECURSIVE Split(_, _)
Split(x, c) ==
    IF PosOf(x, c) = 0 THEN <<x>>
    ELSE <<SubSeq(x, 1, PosOf(x, c) - 1)>> \o Split(SubSeq(x, PosOf(x, c) + 1, Len(x)), c)

ValidIdentifier(seg) ==
    /\ Len(seg) >= 1
    /\ ~isASCIIDigit(seg[1])
    /\ \A i \in DOMAIN seg : seg[i] = "_" \/ isASCIILower(seg[i]) \/ isASCIIUpper(seg[i]) \/ isASCIIDigit(seg[i])

\* A syntactically valid dotted identifier path.
ValidPath(path) ==
    /\ path # <<>>
    /\ \A i \in DOMAIN Split(path, ".") : ValidIdentifier(Split(path, ".")[i])

Reversible(path) == JSONSnakeCase(JSONCamelCase(path)) = path

BadPaths(paths) == {i \in DOMAIN paths : ~ValidPath(paths[i]) \/ ~Reversible(paths[i])}

FirstBad(paths) == CHOOSE i \in BadPaths(paths) : \A j \in BadPaths(paths) : i <= j

IsInvalidPath(err) == err.text = "google.protobuf.FieldMask.paths contains invalid path: %q"
IsIrreversiblePath(err) == err.text = "google.protobuf.FieldMask.paths contains irreversible value %q"

CamelForms(paths) == [i \in DOMAIN paths |-> JSONCamelCase(paths[i])]

\* C4: the FieldMask encoder fails at the first path that is not a valid
\* dotted identifier path (invalid-path error) or whose camelCase form does
\* not convert back to it (irreversible-path error); the error names that
\* path and nothing is written.  When every path passes it writes one string,
\* the camelCase forms joined by ',' in order, with no spaces.
C4_FieldMaskEncode ==
    call.op = "marshalFieldMask" =>
        LET paths == call.arg.paths
        IN /\ Failed(res) <=> BadPaths(paths) # {}
           /\ Failed(res) =>
                 /\ WroteNothing
                 /\ res.err.args = <<paths[FirstBad(paths)]>>
                 /\ IF ~ValidPath(paths[FirstBad(paths)])
                    THEN IsInvalidPath(res.err) ELSE IsIrreversiblePath(res.err)
           /\ ~Failed(res) =>
                 /\ WroteOneString
                 /\ Count(LastString, " ") = 0
                 /\ IF paths = <<>> THEN LastString = <<>>
                    ELSE Split(LastString, ",") = CamelForms(paths)
           /\ paths = <<P_foo_bar>> => ~Failed(res) /\ LastString = <<"f","o","o","B","a","r">>
           /\ paths = <<P_foo__bar>> => IsIrreversiblePath(res.err)
           /\ paths = <<P_fooBar>> => IsIrreversiblePath(res.err)

\* A mask fails at its second path, the first one that does not pass.
C4_Witness ==
    /\ call.op = "marshalFieldMask"
    /\ call.arg.paths = <<P_foo_bar, <<>>, P_foo__bar>>
    /\ IsInvalidPath(res.err)
    /\ res.err.args = <<<<>>>>
    /\ WroteNothing

\* The indices of s that do not hold an underscore, in order.
KeptIndices(s) ==
    LET NotUnderscore(i) == s[i] # "_"
    IN SelectSeq([i \in 1..Len(s) |-> i], NotUnderscore)

\* C5 as stated: an underscore that ends the input, or that is followed by a
\* character that is not a lower-case letter, is kept in the output.
C5_Original ==
    call.op = "JSONCamelCase" =>
        Count(res.out, "_") =
            Cardinality({i \in DOMAIN call.arg :
                            /\ call.arg[i] = "_"
                            /\ (i = Len(call.arg) \/ ~isASCIILower(call.arg[i + 1]))})

\* C5 (amended): JSONCamelCase drops every underscore; a character that
\* directly follows an underscore is upper-cased when it is a lower-case
\* ASCII letter, and every other character is copied unchanged.
C5_CamelCase ==
    call.op = "JSONCamelCase" =>
        LET s == call.arg
            idx == KeptIndices(s)
        IN /\ Len(res.out) = Len(idx)
           /\ Count(res.out, "_") = 0
           /\ \A k \in DOMAIN idx :
                 res.out[k] = IF idx[k] > 1 /\ s[idx[k] - 1] = "_" /\ isASCIILower(s[idx[k]])
                              THEN ToUpper(s[idx[k]]) ELSE s[idx[k]]

\* A trailing underscore and one before a digit were dropped.
C5_Witness ==
    /\ call.op = "JSONCamelCase"
    /\ call.arg = <<"a","_","1","_">>
    /\ res.out = <<"a","1">>

\* The decoder of a field-mask string: split on ',', toSnake each piece.
FieldMaskDecode(x) == [i \in DOMAIN Split(x, ",") |-> JSONSnakeCase(Split(x, ",")[i])]

\* C6 as stated: decoding what the encoder wrote for an accepted path
\* sequence, the empty one included, yields that sequence.
C6_Original ==
    (call.op = "marshalFieldMask" /\ ~Failed(res)) =>
        WroteOneString /\ FieldMaskDecode(LastString) = call.arg.paths

\* C6 (amended): decoding what the encoder wrote for an accepted path
\* sequence of at least one path yields that sequence: same length, same
\* paths, same order.
C6_RoundTrip ==
    (call.op = "marshalFieldMask" /\ ~Failed(res) /\ call.arg.paths # <<>>) =>
        WroteOneString /\ FieldMaskDecode(LastString) = call.arg.paths

\* Three accepted paths were encoded and decode to themselves.
C6_Witness ==
    /\ call.op = "marshalFieldMask"
    /\ call.arg.paths = <<P_foo_bar, P_a_b_c, P_leading>>
    /\ ~Failed(res)
    /\ FieldMaskDecode(LastString) = call.arg.paths

\* The nine shapes with a canonical JSON form of their own.
IsWellKnown(name) ==
    /\ name.parent = "google.protobuf"
    /\ name.name \in {"Any", "Timestamp", "Duration", "Struct", "ListValue", "Value",
                      "FieldMask", "Empty"} \cup WrapperNames

S_attype == <<"@","t","y","p","e">>
S_value == <<"v","a","l","u","e">>

\* The message the payload of the envelope decodes to.
AnyInner(m) ==
    UnmarshalPayload(IF m.hasValue THEN m.value ELSE EmptyPayload,
                     FindMessageByURL(m.typeUrl).name)

\* The object of an envelope whose URL resolves and whose payload decodes.
AnyObject(m) ==
    LET inner == EncodeMessage(AnyInner(m).msg).out
    IN call.e \o <<TokStartObject, TokName(S_attype), TokString(m.typeUrl)>>
       \o (IF IsWellKnown(FindMessageByURL(m.typeUrl).name)
           THEN <<TokName(S_value)>> \o inner
           ELSE SubSeq(inner, 2, Len(inner) - 1))
       \o <<TokEndObject>>

IsMissingTypeUrl(err) == err.text = "google.protobuf.Any: %v is not set" /\ err.args = <<"type_url">>
IsUnresolvable(err) == err.text = "google.protobuf.Any: unable to resolve %q: %v"
IsUndecodable(err) == err.text = "google.protobuf.Any: unable to unmarshal %q: %v"

AnyUnset(m) ==
    /\ (~m.hasType /\ ~m.hasValue) =>
          ~Failed(res) /\ res.out = call.e \o <<TokStartObject, TokEndObject>>
    /\ (~m.hasType /\ m.hasValue) =>
          IsMissingTypeUrl(res.err) /\ WroteNothing
    /\ (m.hasType /\ ~FindMessageByURL(m.typeUrl).ok) =>
          IsUnresolvable(res.err) /\ res.err.args = <<m.typeUrl>>

S_TestExpected ==
    <<"{","\"","i","d","\"",":","\"","i","d","\"",",",
      "\"","c","r","e","a","t","e","d","A","t","\"",":",
      "\"","2","0","2","3","-","0","8","-","2","9","T","0","0",":","0","0",":","0","0","Z","\"",",",
      "\"","m","a","n","a","g","e","r","I","d","\"",":",
      "1","8","0","1","4","3","9","8","5","0","9","4","8","1","9","8","4","}">>

\* C8: JSONPb.Marshal of the plain struct of TestJSONPbMarshal returns no
\* error and the canonical protobuf JSON: lowerCamelCase member names, the
\* Timestamp as its RFC 3339 string, 2^54 as a bare number.
C8_TestJSONPbMarshal ==
    (call.op = "Marshal" /\ call.arg = TestStructValue) =>
        ~Failed(res) /\ res.out = S_TestExpected

\* C9: under any interleaving of concurrent Marshal calls on one JSONPb
\* value, every finished call has returned exactly the bytes and error it
\* returns when run alone.
C9_ConcurrentMarshal ==
    \A p \in Procs : pc[p] = "done" => ret[p] = Marshal(arg[p])

\* Two calls that each wrote a buffer have both returned.
C9_Witness ==
    /\ \A p \in Procs : pc[p] = "done" /\ IsProtoMessage(arg[p]) /\ ~Failed(ret[p])
    /\ arg[1] # arg[2]
    /\ ret[1] = Marshal(arg[1])

\* The bytes a writer holds after Encode was called on each value in turn.
RECURSIVE StreamOf(_)
StreamOf(vs) ==
    IF vs = <<>> THEN <<>>
    ELSE StreamOf(SubSeq(vs, 1, Len(vs) - 1))
         \o (IF Failed(Marshal(vs[Len(vs)])) THEN <<>>
             ELSE Marshal(vs[Len(vs)]).bytes \o <<"\n">>)

\* C10: the bytes received by the writer are, in call order, the JSON of the
\* value followed by exactly one "\n" for each call whose marshalling
\* succeeded; a failing call writes nothing and returns the error.
C10_EncoderStream ==
    /\ w = StreamOf(calls)
    /\ calls # <<>> => res.err = Marshal(calls[Len(calls)]).err

\* A failing call between two successful ones left no bytes behind.
C10_Witness ==
    /\ Len(calls) = 3
    /\ ~Failed(Marshal(calls[1])) /\ Failed(Marshal(calls[2])) /\ ~Failed(Marshal(calls[3]))
    /\ Failed(res) = FALSE
    /\ w = Marshal(calls[1]).bytes \o <<"\n">> \o Marshal(calls[3]).bytes \o <<"\n">>

=============================================================================
